---- MODULE Spec2Model ----
(***************************************************************************)
(* Model of voice_assistant.py: the button-driven main loop (main), the    *)
(* Bluetooth card profile switches (bt_set_profile and the startup reset), *)
(* the voice-activity-endpointed capture (record_until_silence) and the    *)
(* calls to the external stages (do_stt, ask_llama, tts_speak).            *)
(*                                                                         *)
(* Times are integers in milliseconds.  Strings that the code strips are   *)
(* sequences of one-character strings.                                     *)
(***************************************************************************)
EXTENDS Integers, Sequences, FiniteSets, TLC

VARIABLES
    pc,             \* position of the single thread of main()
    branch,         \* which copy of the pipeline runs: "press" (224-239) or "hold" (244-267)
    queue,          \* key events buffered by the input device, not yet returned by read_loop()
    trigger,        \* the event the current iteration of the for loop is handling
    is_recording,   \* main's local is_recording
    recording_proc, \* main's local recording_proc
    profile,        \* the profile the Bluetooth card is actually in
    requested,      \* the profile of the last pactl set-card-profile
    slept,          \* milliseconds slept since the last pactl set-card-profile
    parec_open,     \* record_until_silence's parec process p is running
    stream,         \* what parec delivers in this capture (the environment's choice)
    nread,          \* number of reads of p.stdout that returned data in this capture
    now,            \* time.time() relative to line 154 of this capture
    silence_start,  \* record_until_silence's local silence_start (same origin as now)
    audio_data,     \* record_until_silence's local audio_data, as a sequence of frames
    arrivals,       \* the value of now at which each frame of audio_data was read
    stop_reason,    \* why the last capture loop was left: "eou", "eof", or "none" so far
    wav,            \* content of RECORD_WAV
    txt_file,       \* content of RECORD_WAV + ".txt"
    text,           \* main's local text
    reply,          \* ask_llama's r: what requests.post produced in the last call
    answer,         \* main's local answer
    trace           \* the stages invoked since the last qualifying press, in order

vars == <<pc, branch, queue, trigger, is_recording, recording_proc, profile,
          requested, slept, parec_open, stream, nread, now,
          silence_start, audio_data, arrivals, stop_reason, wav, txt_file,
          text, reply, answer, trace>>

\* ------------------------------------------------------------------ bounds

\* Capacity of the input device's event buffer in the model.
MaxQueue == 1

\* No capture of the model delivers more complete frames than this.
MaxFrames == 150

\* ------------------------------------------------------- program constants

FrameMs == 30
SilenceTimeoutMs == 1000
BootOffSettleMs == 400
BootPlaybackSettleMs == 1000
CaptureSettleMs == 800
PlaybackSettleMs == 700
KeyDown == 1

PLAY_SCANCODES == {200, 201}

Off == "off"
CaptureMode == "handsfree_head_unit"
PlaybackMode == "a2dp_sink"
Profiles == {Off, CaptureMode, PlaybackMode}

\* ------------------------------------------------------------------ strings

Unbound == <<"unbound">>
NoFile == <<"nofile">>
Empty == <<>>

RECURSIVE LStrip(_)
LStrip(s) == IF s = <<>> THEN s
             ELSE IF Head(s) = " " THEN LStrip(Tail(s)) ELSE s

RECURSIVE RStrip(_)
RStrip(s) == IF s = <<>> THEN s
             ELSE IF s[Len(s)] = " " THEN RStrip(SubSeq(s, 1, Len(s) - 1)) ELSE s

\* str.strip()
Strip(s) == RStrip(LStrip(s))

\* What whisper may write to RECORD_WAV + ".txt".
Transcripts == {<<" ">>, <<" ", "a", " ">>}

\* What choices[0].message.content may hold.
Contents == {<<" ">>, <<"b", " ">>}

\* ------------------------------------------------------------------- events

\* A qualifying press and every kind of event that is not one.
MkEvent(t, sc, ks, busy) == [type |-> t, scancode |-> sc, keystate |-> ks, busy |-> busy]

EventKinds ==
    { MkEvent("EV_KEY", 200, 1, FALSE), MkEvent("EV_KEY", 201, 1, FALSE),
      MkEvent("EV_KEY", 200, 0, FALSE), MkEvent("EV_KEY", 200, 2, FALSE),
      MkEvent("EV_KEY", 164, 1, FALSE), MkEvent("EV_SYN", 0, 0, FALSE) }

NoEvent == MkEvent("none", 0, 0, FALSE)

\* The press test without the comparison of the key state.
IsPress_AnyState(e) == e.type = "EV_KEY" /\ e.scancode \in PLAY_SCANCODES

\* Lines 219 and 224.
IsPress(e) == e.type = "EV_KEY" /\ e.scancode \in PLAY_SCANCODES /\ e.keystate = KeyDown

\* ------------------------------------------------------------------ streams

\* A capture's input: lead Silence frames, sp1 Speech frames, gap Silence
\* frames, sp2 Speech frames, then Silence; after eof complete frames the
\* source is exhausted, leaving a partial frame first when partial holds.  The
\* first frame arrives lat + FrameMs after line 154, each later frame FrameMs
\* after the one before (a live 16 kHz stream read in 30 ms frames).
MkStream(lead, sp1, gap, sp2, eof, partial, lat) ==
    [lead |-> lead, sp1 |-> sp1, gap |-> gap, sp2 |-> sp2, eof |-> eof,
     partial |-> partial, lat |-> lat]

NoStream == MkStream(0, 0, 0, 0, 0, FALSE, 0)

SessionStreams ==
    { MkStream(0, 0, 0, 0, 0, FALSE, 0),
      MkStream(0, 1, 0, 0, 2, TRUE, 0),
      MkStream(0, 2, 0, 0, MaxFrames, FALSE, 10) }

CaptureStreams ==
    { MkStream(lead, sp1, gap, sp2, eof, partial, lat) :
        lead \in {0, 5}, sp1 \in {0, 1, 67}, gap \in {3, 33}, sp2 \in {0, 2},
        eof \in {0, 4, MaxFrames}, partial \in BOOLEAN, lat \in {0, 10, 20} }

\* vad.is_speech of the i-th complete frame of stream s (line 164).
IsSpeech(s, i) ==
    \/ s.lead < i /\ i <= s.lead + s.sp1
    \/ s.lead + s.sp1 + s.gap < i /\ i <= s.lead + s.sp1 + s.gap + s.sp2

\* The i-th complete frame of stream s.
FrameAt(s, i) == [id |-> i, cls |-> IF IsSpeech(s, i) THEN "Speech" ELSE "Silence"]

\* The bytes left over when the source closes in the middle of a frame.
ShortFrame(i) == [id |-> i, cls |-> "Short"]

\* ------------------------------------------------------------ dialog replies

MkReply(err, status, json, has, content) ==
    [err |-> err, status |-> status, json |-> json, has |-> has, content |-> content]

NoReply == MkReply("unset", 0, FALSE, FALSE, <<>>)

\* What requests.post(LLAMA_URL, ..., timeout=60) can produce.
Replies ==
    { MkReply("network", 0, FALSE, FALSE, <<>>),
      MkReply("timeout", 0, FALSE, FALSE, <<>>),
      MkReply("none", 500, FALSE, FALSE, <<>>),
      MkReply("none", 200, FALSE, FALSE, <<>>),
      MkReply("none", 200, TRUE, FALSE, <<>>) }
    \cup { MkReply("none", 200, TRUE, TRUE, c) : c \in Contents }

\* ask_llama (lines 104-118): whether it raises, and what it returns if not.
AskLlamaRaises(r) == r.err # "none" \/ (r.status = 200 /\ ~r.json)

AskLlamaValue(r) ==
    IF r.status # 200 THEN Empty
    ELSE IF ~r.has THEN Empty
    ELSE Strip(r.content)

\* ------------------------------------------------------------------ helpers

\* pactl set-card-profile BT_CARD target, succeeding or not; its exit status
\* is discarded (lines 47-49, 196, 199).
SetCardProfile(target, ok) ==
    /\ requested' = target
    /\ profile' = IF ok THEN target ELSE profile
    /\ slept' = 0

\* A sleep that is skipped.
Sleep_Skipped(ms) == slept' = slept

\* time.sleep(ms)
Sleep(ms) == slept' = slept + ms

\* An uncaught exception leaves main(): the process ends.
Crash == pc' = "crashed"

\* is_recording starting out set.
IsRecordingInit_Set == TRUE

\* Line 212.
IsRecordingInit == FALSE

\* The hold-to-talk branch entered without the test of is_recording.
LoopTail_Always ==
    /\ is_recording' = FALSE
    /\ recording_proc' = "None"
    /\ branch' = "hold"
    /\ pc' = "stt"

\* Lines 244-252: the hold-to-talk check that ends every iteration of the
\* for loop.  last_press_time stays 0, so time.time() - last_press_time > 0.5
\* holds whenever the check is reached.
LoopTail ==
    IF is_recording
    THEN /\ is_recording' = FALSE
         /\ recording_proc' = "None"
         /\ branch' = "hold"
         /\ pc' = "stt"
    ELSE /\ pc' = "wait"
         /\ UNCHANGED <<is_recording, recording_proc, branch>>

captureVars == <<parec_open, stream, nread, now, silence_start, audio_data,
                 arrivals, stop_reason>>
routeVars == <<profile, requested, slept>>
loopVars == <<branch, is_recording, recording_proc>>
stageVars == <<txt_file, text, reply, answer>>

\* --------------------------------------------------------------------- Init

Init ==
    /\ pc = "boot_off"
    /\ branch = "press"
    /\ queue = <<>>
    /\ trigger = NoEvent
    /\ is_recording = IsRecordingInit
    /\ recording_proc = "None"
    /\ profile \in Profiles
    /\ requested = "none"
    /\ slept = 0
    /\ parec_open = FALSE
    /\ stream = NoStream
    /\ nread = 0
    /\ now = 0
    /\ silence_start = 0
    /\ audio_data = <<>>
    /\ arrivals = <<>>
    /\ stop_reason = "none"
    /\ wav = <<>>
    /\ txt_file = NoFile
    /\ text = Unbound
    /\ reply = NoReply
    /\ answer = Unbound
    /\ trace = <<>>

\* ------------------------------------------------------------------ startup

\* A startup that does not request "off" first.
BootOff_Skipped ==
    /\ pc = "boot_off"
    /\ pc' = "boot_a2dp"
    /\ UNCHANGED <<queue, trigger, loopVars, routeVars, captureVars, wav,
                   stageVars, trace>>

\* Line 196.
BootOff ==
    /\ pc = "boot_off"
    /\ \E ok \in BOOLEAN : SetCardProfile(Off, ok)
    /\ pc' = "boot_sleep_off"
    /\ UNCHANGED <<queue, trigger, loopVars, captureVars, wav, stageVars, trace>>

\* Line 197.
BootSleepOff ==
    /\ pc = "boot_sleep_off"
    /\ Sleep(BootOffSettleMs)
    /\ pc' = "boot_a2dp"
    /\ UNCHANGED <<queue, trigger, loopVars, profile, requested,
                   captureVars, wav, stageVars, trace>>

\* Line 199.
BootA2dp ==
    /\ pc = "boot_a2dp"
    /\ \E ok \in BOOLEAN : SetCardProfile(PlaybackMode, ok)
    /\ pc' = "boot_sleep_a2dp"
    /\ UNCHANGED <<queue, trigger, loopVars, captureVars, wav, stageVars, trace>>

\* Line 200.
BootSleepA2dp ==
    /\ pc = "boot_sleep_a2dp"
    /\ Sleep(BootPlaybackSettleMs)
    /\ pc' = "open_dev"
    /\ UNCHANGED <<queue, trigger, loopVars, profile, requested,
                   captureVars, wav, stageVars, trace>>

\* Lines 202-216: the input device is opened and the loop variables are set.
OpenDevice ==
    /\ pc = "open_dev"
    /\ is_recording' = IsRecordingInit
    /\ recording_proc' = "None"
    /\ pc' = "wait"
    /\ UNCHANGED <<branch, queue, trigger, routeVars, captureVars, wav,
                   stageVars, trace>>

\* ---------------------------------------------------------------- main loop

Opened == pc \notin {"boot_off", "boot_sleep_off", "boot_a2dp", "boot_sleep_a2dp",
                     "open_dev", "crashed"}

\* The user presses or releases a key: the kernel buffers the event for the
\* open device whatever main() is doing.  busy records, for a qualifying
\* press, whether main() was inside an iteration of the for loop at that
\* moment.
Arrive ==
    /\ Opened
    /\ Len(queue) < MaxQueue
    /\ \E e \in EventKinds :
          queue' = Append(queue, [e EXCEPT !.busy = (IsPress(e) /\ pc # "wait")])
    /\ UNCHANGED <<pc, trigger, loopVars, routeVars, captureVars, wav,
                   stageVars, trace>>

\* Lines 218-227 for a qualifying press; lines 218-224 and 244 otherwise.
ReadEvent ==
    /\ pc = "wait"
    /\ queue # <<>>
    /\ queue' = Tail(queue)
    /\ trigger' = Head(queue)
    /\ IF IsPress(Head(queue))
       THEN /\ \E ok \in BOOLEAN : SetCardProfile(CaptureMode, ok)
            /\ branch' = "press"
            /\ trace' = <<>>
            /\ pc' = "sleep_capture"
            /\ UNCHANGED <<is_recording, recording_proc>>
       ELSE /\ LoopTail
            /\ UNCHANGED <<routeVars, trace>>
    /\ UNCHANGED <<captureVars, wav, stageVars>>

\* Line 228.
SleepCapture ==
    /\ pc = "sleep_capture"
    /\ Sleep(CaptureSettleMs)
    /\ pc' = "rec_start"
    /\ UNCHANGED <<queue, trigger, loopVars, profile, requested,
                   captureVars, wav, stageVars, trace>>

\* ------------------------------------------------------ record_until_silence

\* Lines 133-154: parec is started, audio_data is empty, silence_start is now.
StartCaptureFrom(S) ==
    /\ pc = "rec_start"
    /\ \E s \in S : stream' = s
    /\ parec_open' = TRUE
    /\ nread' = 0
    /\ now' = 0
    /\ silence_start' = 0
    /\ audio_data' = <<>>
    /\ arrivals' = <<>>
    /\ stop_reason' = "none"
    /\ trace' = Append(trace, "capture")
    /\ pc' = "rec_loop"
    /\ UNCHANGED <<queue, trigger, loopVars, routeVars, wav, stageVars>>

StartCapture == StartCaptureFrom(SessionStreams)

\* The comparison of line 169 with >= for >.
TimedOut_Inclusive(t, since) == t - since >= SilenceTimeoutMs

\* Line 169.
TimedOut(t, since) == t - since > SilenceTimeoutMs

\* A speech frame that does not restart the silence timer.
OnSpeech_NoReset(t, since) == since

\* Lines 166-167: silence_start after a frame classified speech at time t.
OnSpeech(t, since) == t

\* An extend that keeps only the frames classified speech.
Extend_SpeechOnly(data, frame) ==
    IF frame.cls = "Silence" THEN data ELSE Append(data, frame)

\* Line 161.
Extend(data, frame) == Append(data, frame)

\* An empty read that is passed on to vad.is_speech, which raises.
EmptyRead_Raises ==
    /\ Crash
    /\ UNCHANGED stop_reason

\* Lines 158-159: read returned b"", the loop is left.
EmptyRead ==
    /\ stop_reason' = "eof"
    /\ pc' = "rec_stop"

\* Lines 157-171: one iteration of the while loop.
ReadFrame ==
    /\ pc = "rec_loop"
    /\ LET i == nread + 1
           t == now + FrameMs + (IF nread = 0 THEN stream.lat ELSE 0)
       IN IF i <= stream.eof /\ i <= MaxFrames
          THEN \* a complete frame
               /\ nread' = i
               /\ now' = t
               /\ audio_data' = Extend(audio_data, FrameAt(stream, i))
               /\ arrivals' = Append(arrivals, t)
               /\ IF IsSpeech(stream, i)
                  THEN /\ silence_start' = OnSpeech(t, silence_start)
                       /\ UNCHANGED <<pc, stop_reason>>
                  ELSE /\ UNCHANGED silence_start
                       /\ IF TimedOut(t, silence_start)
                          THEN /\ stop_reason' = "eou"
                               /\ pc' = "rec_stop"
                          ELSE UNCHANGED <<pc, stop_reason>>
          ELSE IF stream.partial
          THEN \* the source closed inside a frame: read returns the bytes
               \* left, line 161 appends them and vad.is_speech raises on a
               \* frame that is not 10, 20 or 30 ms long
               /\ nread' = i
               /\ audio_data' = Extend(audio_data, ShortFrame(i))
               /\ arrivals' = Append(arrivals, now)
               /\ Crash
               /\ UNCHANGED <<now, silence_start, stop_reason>>
          ELSE \* read returns b"": line 158
               /\ EmptyRead
               /\ UNCHANGED <<nread, now, silence_start, audio_data, arrivals>>
    /\ UNCHANGED <<queue, trigger, loopVars, routeVars, parec_open, stream,
                   wav, stageVars, trace>>

\* wave.writeframes(bytes(audio_data)), lines 176-180.
SavedWav(data) == data

\* A return that leaves parec running.
Terminate_Missing == UNCHANGED parec_open

\* p.terminate(), line 173.
Terminate == parec_open' = FALSE

\* Lines 173-182: parec is terminated, the WAV file is written, the function
\* returns and its locals are gone (stream, nread and stop_reason stay as the
\* record of what this capture was given and how it ended).
FinishCapture ==
    /\ pc = "rec_stop"
    /\ Terminate
    /\ wav' = SavedWav(audio_data)
    /\ audio_data' = <<>>
    /\ arrivals' = <<>>
    /\ now' = 0
    /\ silence_start' = 0
    /\ pc' = "stt"
    /\ UNCHANGED <<queue, trigger, loopVars, routeVars, stream, nread,
                   stop_reason, stageVars, trace>>

\* ------------------------------------------------------------------- stages

\* do_stt (lines 63-82), called at line 232 or 254.  whisper-cli writes the
\* transcript file or fails and leaves the file as it was; the file is then
\* opened, which raises if it does not exist.
DoStt ==
    /\ pc = "stt"
    /\ trace' = Append(trace, "stt")
    /\ \E out \in Transcripts \cup {NoFile} :
          /\ txt_file' = IF out = NoFile THEN txt_file ELSE out
          /\ IF txt_file' = NoFile
             THEN Crash /\ UNCHANGED text
             ELSE text' = Strip(txt_file') /\ pc' = "llm"
    /\ UNCHANGED <<queue, trigger, loopVars, routeVars, captureVars, wav,
                   reply, answer>>

\* ask_llama(text) (lines 85-118), called at line 233 or 258.
AskLlama ==
    /\ pc = "llm"
    /\ trace' = Append(trace, "llm")
    /\ \E r \in Replies :
          /\ reply' = r
          /\ IF AskLlamaRaises(r)
             THEN Crash /\ UNCHANGED answer
             ELSE answer' = AskLlamaValue(r) /\ pc' = "bt_play"
    /\ UNCHANGED <<queue, trigger, loopVars, routeVars, captureVars, wav,
                   txt_file, text>>

\* A pipeline that goes on to tts_speak without requesting a2dp_sink.
SwitchPlayback_Missing ==
    /\ pc = "bt_play"
    /\ trace' = Append(trace, "bt_play")
    /\ pc' = "sleep_play"
    /\ UNCHANGED <<queue, trigger, loopVars, routeVars, captureVars, wav,
                   stageVars>>

\* bt_set_profile("a2dp_sink"), line 235 or 261.
SwitchPlayback ==
    /\ pc = "bt_play"
    /\ trace' = Append(trace, "bt_play")
    /\ \E ok \in BOOLEAN : SetCardProfile(PlaybackMode, ok)
    /\ pc' = "sleep_play"
    /\ UNCHANGED <<queue, trigger, loopVars, captureVars, wav, stageVars>>

\* Line 236 or 262.
SleepPlayback ==
    /\ pc = "sleep_play"
    /\ Sleep(PlaybackSettleMs)
    /\ pc' = "tts"
    /\ UNCHANGED <<queue, trigger, loopVars, profile, requested,
                   captureVars, wav, stageVars, trace>>

\* tts_speak(answer), lines 122-128: piper synthesises TTS_OUT.
TtsSynth ==
    /\ pc = "tts"
    /\ trace' = Append(trace, "tts")
    /\ pc' = "tts_play"
    /\ UNCHANGED <<queue, trigger, loopVars, routeVars, captureVars, wav,
                   stageVars>>

\* Lines 129-130: aplay plays TTS_OUT, whatever piper did; tts_speak returns
\* and the iteration ends (line 239 then 244, or line 267).
TtsPlay ==
    /\ pc = "tts_play"
    /\ IF branch = "press"
       THEN LoopTail
       ELSE pc' = "wait" /\ UNCHANGED <<is_recording, recording_proc, branch>>
    /\ UNCHANGED <<queue, trigger, routeVars, captureVars, wav, stageVars, trace>>

\* --------------------------------------------------------------------- Next

Next ==
    \/ BootOff
    \/ BootSleepOff
    \/ BootA2dp
    \/ BootSleepA2dp
    \/ OpenDevice
    \/ Arrive
    \/ ReadEvent
    \/ SleepCapture
    \/ StartCapture
    \/ ReadFrame
    \/ FinishCapture
    \/ DoStt
    \/ AskLlama
    \/ SwitchPlayback
    \/ SleepPlayback
    \/ TtsSynth
    \/ TtsPlay

Spec == Init /\ [][Next]_vars

\* ------------------------------------------------ the capture taken alone

\* The state in which the first session enters record_until_silence (line
\* 230): startup done, one press read, the capture profile requested and the
\* settle delay slept.
InitCapture ==
    /\ pc = "rec_start"
    /\ branch = "press"
    /\ queue = <<>>
    /\ trigger = MkEvent("EV_KEY", 200, 1, FALSE)
    /\ is_recording = IsRecordingInit
    /\ recording_proc = "None"
    /\ profile = CaptureMode
    /\ requested = CaptureMode
    /\ slept = CaptureSettleMs
    /\ parec_open = FALSE
    /\ stream = NoStream
    /\ nread = 0
    /\ now = 0
    /\ silence_start = 0
    /\ audio_data = <<>>
    /\ arrivals = <<>>
    /\ stop_reason = "none"
    /\ wav = <<>>
    /\ txt_file = NoFile
    /\ text = Unbound
    /\ reply = NoReply
    /\ answer = Unbound
    /\ trace = <<>>

\* record_until_silence on every stream of CaptureStreams.
StartCaptureAny == StartCaptureFrom(CaptureStreams)

NextCapture ==
    \/ StartCaptureAny
    \/ ReadFrame
    \/ FinishCapture

SpecCapture == InitCapture /\ [][NextCapture]_vars

\* ------------------------------------------------------------ session view

\* The stage was invoked since the last qualifying press.
Invoked(stage) == \E i \in 1..Len(trace) : trace[i] = stage

\* The order of the stages of one session (lines 230-238).
Pipeline == <<"capture", "stt", "llm", "bt_play", "tts">>

Idle == pc = "wait"
Listening == pc \in {"rec_loop", "rec_stop"}
Speaking == pc = "tts_play"

\* do_stt of this session has returned (it did not raise).
SttReturned == Invoked("stt") /\ (pc = "llm" \/ Invoked("llm"))

\* ------------------------------------------------------------------- claims

\* C1: in a session whose transcript is empty, neither ask_llama nor
\* tts_speak is invoked.
C1_EmptyTranscriptSkipsDialogAndSynthesis ==
    (SttReturned /\ text = Empty) => (~Invoked("llm") /\ ~Invoked("tts"))

\* C2: in a session whose DialogService response has a status other than
\* 200, the answer is empty and tts_speak is not invoked.
C2_Non200SkipsSynthesis ==
    (Invoked("llm") /\ reply.err = "none" /\ reply.status # 200)
        => (answer = Empty /\ ~Invoked("tts"))

\* C3: no session is ever created for a qualifying press that arrived while
\* main() was inside a session.
C3_PressDuringSessionIgnored == ~(IsPress(trigger) /\ trigger.busy)

\* C4: the card is not in the capture profile while tts_speak runs, and not
\* in the playback profile while record_until_silence runs.
C4_ProfileMatchesStage ==
    /\ Speaking => profile # CaptureMode
    /\ Listening => profile # PlaybackMode

\* C5: parec runs only after the capture profile was requested and 0.8 s were
\* slept; tts_speak runs only after the playback profile was requested and
\* 0.7 s were slept; while a settle delay is being slept no parec runs.
C5_SettleBeforeAudio ==
    /\ parec_open => (requested = CaptureMode /\ slept >= CaptureSettleMs)
    /\ pc \in {"tts", "tts_play"} =>
          (requested = PlaybackMode /\ slept >= PlaybackSettleMs)
    /\ pc \in {"boot_sleep_off", "boot_sleep_a2dp", "sleep_capture", "sleep_play"} =>
          (~parec_open /\ slept = 0)

\* A session is about to play its answer after a capture that read frames.
C5_Witness ==
    /\ pc = "tts_play"
    /\ wav # <<>>
    /\ requested = PlaybackMode
    /\ slept = PlaybackSettleMs

\* No frame captured so far is Speech (nor a partial frame).
AllSilence == \A i \in 1..Len(audio_data) : audio_data[i].cls = "Silence"

\* C6: a capture with only Silence frames ends by EndOfUtterance at the first
\* frame that arrives more than 1.0 s after capture start, which is at most
\* one frame duration after the 1.0 s mark, and not at an earlier frame.
C6_SilentCaptureStopsAtTimeout ==
    LET n == Len(arrivals) IN
    /\ (pc = "rec_stop" /\ stop_reason = "eou" /\ AllSilence) =>
          /\ n >= 1
          /\ arrivals[n] > SilenceTimeoutMs
          /\ arrivals[n] <= SilenceTimeoutMs + FrameMs
          /\ \A i \in 1..(n - 1) : arrivals[i] <= SilenceTimeoutMs
    /\ (pc = "rec_loop" /\ AllSilence /\ n >= 1) => arrivals[n] <= SilenceTimeoutMs

\* A capture of Silence frames only has just ended by EndOfUtterance.
C6_Witness ==
    /\ pc = "rec_stop"
    /\ stop_reason = "eou"
    /\ AllSilence
    /\ Len(audio_data) > 1

\* The arrival time of the last Speech frame among the first k frames, or
\* capture start (0) if there is none.
RECURSIVE LastSpeechBefore(_)
LastSpeechBefore(k) ==
    IF k = 0 THEN 0
    ELSE IF audio_data[k].cls = "Speech" THEN arrivals[k]
    ELSE LastSpeechBefore(k - 1)

\* C7: EndOfUtterance is signalled only on a Silence frame that arrives more
\* than 1.0 s (and at most 1.0 s plus one frame) after the most recent Speech
\* frame, or after capture start if there was none; no earlier frame met
\* that condition; after 67 Speech frames (2.0 s) followed by Silence the
\* capture stops within two frames of t = 3.0 s.
C7_EndOfUtteranceAfterLastSpeech ==
    LET n == Len(arrivals) IN
    /\ (pc = "rec_stop" /\ stop_reason = "eou") =>
          /\ n >= 1
          /\ audio_data[n].cls = "Silence"
          /\ arrivals[n] - LastSpeechBefore(n) > SilenceTimeoutMs
          /\ arrivals[n] - LastSpeechBefore(n) <= SilenceTimeoutMs + FrameMs
          /\ \A k \in 1..(n - 1) :
                arrivals[k] - LastSpeechBefore(k) <= SilenceTimeoutMs
          /\ (stream.lead = 0 /\ stream.sp1 = 67 /\ stream.sp2 = 0) =>
                (arrivals[n] >= 3000 - 2 * FrameMs /\ arrivals[n] <= 3000 + 2 * FrameMs)
    /\ (pc = "rec_loop" /\ n >= 1 /\ audio_data[n].cls = "Silence") =>
          arrivals[n] - LastSpeechBefore(n) <= SilenceTimeoutMs

\* The scenario: 67 Speech frames, then Silence until EndOfUtterance.
C7_Witness ==
    /\ pc = "rec_stop"
    /\ stop_reason = "eou"
    /\ stream.lead = 0 /\ stream.sp1 = 67 /\ stream.sp2 = 0
    /\ Len(audio_data) > 67

\* The first n complete frames of stream s, in order.
FramesRead(s, n) == [i \in 1..n |-> FrameAt(s, i)]

\* C8: inside the capture loop audio_data is exactly the frames read so far,
\* in order, Silence included; the frame that triggers EndOfUtterance is its
\* last element; the saved recording is that sequence.
C8_RecordingIsFramesRead ==
    /\ pc \in {"rec_loop", "rec_stop"} => audio_data = FramesRead(stream, nread)
    /\ (pc = "rec_stop" /\ stop_reason = "eou") =>
          audio_data[Len(audio_data)] = FrameAt(stream, nread)
    /\ (pc = "stt" /\ stop_reason # "none") => wav = FramesRead(stream, nread)

\* A recording with Speech and Silence frames has been saved after
\* EndOfUtterance.
C8_Witness ==
    /\ pc = "stt"
    /\ stop_reason = "eou"
    /\ \E i \in 1..Len(wav) : wav[i].cls = "Speech"
    /\ \E i \in 1..Len(wav) : wav[i].cls = "Silence"

\* C9: a DialogService failure other than a non-200 status (network error,
\* timeout, a 200 body that is not JSON or lacks choices[0].message.content)
\* gives an empty answer, no tts_speak and a process that keeps running.
C9_OtherDialogFailuresShortCircuit ==
    (/\ Invoked("llm")
     /\ \/ reply.err \in {"network", "timeout"}
        \/ reply.err = "none" /\ reply.status = 200 /\ ~(reply.json /\ reply.has))
        => (pc # "crashed" /\ ~Invoked("tts"))

\* C10: the stages invoked in a session are a prefix of capture, do_stt,
\* ask_llama, playback switch, tts_speak, each at most once, and a stage is
\* entered only when exactly the stages before it have been invoked.
C10_StagesOnceInOrder ==
    /\ Len(trace) <= Len(Pipeline)
    /\ \A i \in 1..Len(trace) : trace[i] = Pipeline[i]
    /\ pc \in {"sleep_capture", "rec_start"} => Len(trace) = 0
    /\ pc \in {"rec_loop", "rec_stop", "stt"} => Len(trace) = 1
    /\ pc = "llm" => Len(trace) = 2
    /\ pc = "bt_play" => Len(trace) = 3
    /\ pc \in {"sleep_play", "tts"} => Len(trace) = 4
    /\ pc = "tts_play" => Len(trace) = 5

\* A session has run all five stages and main() waits for the next event.
C10_Witness == Idle /\ trace = Pipeline

\* A key event with a trigger scan code and the press edge.
Qualifies(e) == e.type = "EV_KEY" /\ e.scancode \in {200, 201} /\ e.keystate = 1

\* C11: main() leaves Idle only by reading a qualifying press, and reading
\* any other event (release, hold, other scan code, non-key event) changes
\* neither the position of main(), the card profile, nor anything the
\* pipeline stages read or write.
C11_OnlyPressStartsSession ==
    [][ /\ (pc = "wait" /\ pc' # "wait") =>
              (queue # <<>> /\ Qualifies(Head(queue)) /\ pc' = "sleep_capture")
        /\ (pc = "wait" /\ queue # <<>> /\ queue' = Tail(queue)
               /\ ~Qualifies(Head(queue))) =>
              UNCHANGED <<pc, branch, is_recording, recording_proc, routeVars,
                          captureVars, wav, stageVars, trace>>
      ]_vars

\* A release of the trigger key has been read and main() waits again, with
\* no session started so far.
C11_Witness ==
    /\ Idle
    /\ trigger = MkEvent("EV_KEY", 200, 0, FALSE)
    /\ trace = <<>>
    /\ requested = PlaybackMode

\* The positions of main() before the for loop of line 218.
Booting == pc \in {"boot_off", "boot_sleep_off", "boot_a2dp", "boot_sleep_a2dp",
                   "open_dev"}

\* C12: at process start "off" is the first profile requested, the capture
\* or playback profile is requested only after it and after the 0.4 s that
\* follow it, and no event is read before the startup reset is over.
C12_StartupResetFirst ==
    /\ pc = "boot_off" => requested = "none"
    /\ pc = "boot_sleep_off" => (requested = Off /\ slept = 0)
    /\ pc = "boot_a2dp" => (requested = Off /\ slept >= BootOffSettleMs)
    /\ requested \in {CaptureMode, PlaybackMode} =>
          pc \notin {"boot_off", "boot_sleep_off", "boot_a2dp"}
    /\ requested = CaptureMode => ~Booting
    /\ Booting => (trigger = NoEvent /\ queue = <<>> /\ trace = <<>>)

\* The startup reset is over and main() waits for its first event.
C12_Witness ==
    /\ Idle
    /\ trigger = NoEvent
    /\ requested = PlaybackMode
    /\ slept = BootPlaybackSettleMs

\* C13: when the switch a session requests fails (the card is not in the
\* profile requested), the capture, respectively the playback, is not
\* started and the session goes back to Idle.
C13_FailedSwitchEndsSession ==
    /\ (requested = CaptureMode /\ profile # CaptureMode) =>
          pc \in {"sleep_capture", "rec_start", "wait"}
    /\ (requested = PlaybackMode /\ profile # PlaybackMode) =>
          pc \notin {"tts", "tts_play"}

\* C14: when the capture returns an empty recording, none of do_stt,
\* ask_llama and tts_speak is invoked in that session.
C14_EmptyRecordingSkipsStages ==
    (Invoked("capture") /\ stop_reason # "none" /\ pc \notin {"rec_loop", "rec_stop"}
        /\ wav = <<>>)
        => (~Invoked("stt") /\ ~Invoked("llm") /\ ~Invoked("tts"))

\* C15: when a read returns no data before EndOfUtterance, the loop is left
\* without an exception, parec is terminated and the recording saved is
\* exactly the frames read up to then, possibly none.
C15_ExhaustionEndsCapture ==
    /\ stop_reason = "eof" => (pc \in {"rec_stop", "stt"} /\ nread = stream.eof)
    /\ (pc = "rec_stop" /\ stop_reason = "eof") =>
          audio_data = FramesRead(stream, stream.eof)
    /\ (pc = "stt" /\ stop_reason = "eof") =>
          (wav = FramesRead(stream, stream.eof) /\ ~parec_open)
    /\ pc = "crashed" => stream.partial

\* A capture whose first read returned no data has saved an empty recording.
C15_Witness ==
    /\ pc = "stt"
    /\ stop_reason = "eof"
    /\ stream.eof = 0
    /\ wav = <<>>

\* C16: tts_speak runs once per session, after the other four stages, and
\* main() then waits again; a session that was started always comes back to
\* Idle unless an external stage did not return: main() ends inside a session
\* only when requests.post got no response (network error or timeout).
C16_SessionsReturnToIdle ==
    /\ pc = "tts_play" => trace = Pipeline
    /\ pc = "crashed" =>
          (Invoked("llm") /\ ~Invoked("bt_play") /\ reply.err \in {"network", "timeout"})

\* C17: parec runs only inside the capture loop: it has been terminated when
\* do_stt is entered, whichever way the loop was left, none runs while main()
\* is Idle or in a later stage, and a capture starts one only when none runs;
\* main() holds no other recording process.
C17_ParecReleased ==
    /\ pc \in {"wait", "stt", "llm", "bt_play", "sleep_play", "tts", "tts_play"} =>
          ~parec_open
    /\ (Booting \/ pc \in {"sleep_capture", "rec_start"}) => ~parec_open
    /\ parec_open => pc \in {"rec_loop", "rec_stop", "crashed"}
    /\ recording_proc = "None"

\* A capture that ended by EndOfUtterance has been transcribed and its parec
\* is gone.
C17_Witness ==
    /\ pc = "llm"
    /\ stop_reason = "eou"
    /\ ~parec_open

\* C18: main() does not go on to wait for button presses when the startup
\* reset failed to put the card in the playback profile.
C18_StartupFailureEscalated ==
    (pc = "open_dev" \/ (Idle /\ trigger = NoEvent)) => profile = PlaybackMode

\* C19: whenever main() waits for the next event, the profile last requested
\* is a2dp_sink.
C19_IdleRequestsPlayback == Idle => requested = PlaybackMode

\* A session whose transcript was empty and whose dialog call got HTTP 500
\* is over and main() waits again.
C19_Witness ==
    /\ Idle
    /\ trace = Pipeline
    /\ text = Empty
    /\ reply.status = 500

\* C20: is_recording is False and recording_proc is None in every state, and
\* the hold-to-talk copy of the pipeline (lines 244-267) never runs.
C20_HoldBranchDead ==
    /\ is_recording = FALSE
    /\ recording_proc = "None"
    /\ branch = "press"

\* A hold event of the trigger key has been read after a complete session
\* and main() waits again.
C20_Witness ==
    /\ Idle
    /\ trace = Pipeline
    /\ trigger = MkEvent("EV_KEY", 200, 2, FALSE)

====
